---- MODULE Spec2Model ----
(***************************************************************************)
(* A model of the notebook optuna/optuna_rapids.ipynb: the helper          *)
(* functions it defines (timed, train_and_eval, objective, run_study,      *)
(* seq_call, mlflow_callback, objective_mg) and the cells that call them.  *)
(*                                                                         *)
(* The libraries the notebook calls (the sampler, the joblib backends, the *)
(* classifier, the tracking service, the sqlite trial storage) are the     *)
(* environment: a sampler answers suggest_int with any value of a small    *)
(* set inside the range it was asked for, an evaluation ends with a score, *)
(* with NaN or with a raised exception, and a backend of n jobs keeps at   *)
(* most n tasks in flight.                                                  *)
(***************************************************************************)
EXTENDS Integers, Sequences, FiniteSets, TLC

\* ------------------------------------------------------------------ bounds

\* The notebook sets N_TRIALS = 20; the model runs the same code with fewer.
MaxTrials == 2
\* The largest number of workers the cluster query may report.
MaxWorkers == 2
\* How many times one session executes the cell of its study.
MaxRuns == 2

\* The longest trial list the comparison cells are run on and a cell of a
\* study is executed again over.
MaxRows == MaxTrials + 1

\* --------------------------------------------------------- program constants

N_TRIALS == MaxTrials

\* trial.suggest_int("max_depth", 10, 15)
max_depth_low == 10
max_depth_high == 15
\* trial.suggest_int("n_estimators", 200, 700)
n_estimators_low == 200
n_estimators_high == 700
\* objective_mg: trial.suggest_int("max_depth", 10, 15) and
\* trial.suggest_int("n_estimators", 200, 700)
mg_max_depth_low == 10
mg_max_depth_high == 15
mg_n_estimators_low == 200
mg_n_estimators_high == 700
\* train_test_split(..., random_state=77)
random_state == 77
\* train_and_eval(X, y, max_depth=16, n_estimators=100): the baseline call
default_max_depth == 16
default_n_estimators == 100

\* trial.value of a trial that has no value, and float("nan")
None == 0
NaN == -1
\* The accuracies an evaluation may yield (abstract levels), NaN included:
\* accuracy_score is a float computed by the library.
Scores == {1, 2}
Outcomes == Scores \cup {NaN}

\* ------------------------------------------------------------------- cells

DaskCell == "optuna-joblib-dask-backend"
LokyCell == "optuna-joblib-loky-backend"
SimpleCell == "optuna-simple"
MlflowCell == "optuna-joblib-dask-backend-mlflow-callback"
MnmgCell == "optuna-mnmg-joblib---"
JoblibCell == "joblib-dask-backend"
SeqCell == "sequential-calls"
BaselineCell == "baseline"

\* The cells that create a study and optimize it; the study is named after the cell.
StudyCells == {DaskCell, LokyCell, SimpleCell, MlflowCell, MnmgCell}
\* The cells that call seq_call N_TRIALS times without a study.
CallCells == {JoblibCell, SeqCell}
TimedCells == StudyCells \cup CallCells

\* The study cells that optimize with n_jobs=n_workers under a joblib backend.
ParallelStudyCells == {DaskCell, LokyCell, MlflowCell}

\* The study cells that call study.optimize without n_jobs.
SequentialStudyCells == {SimpleCell, MnmgCell}

\* The cells that go through run_study.
RunStudyCells == {DaskCell, MlflowCell}

\* The name handed to timed() by each cell.
TimerName(c) == IF c = SimpleCell THEN "no-dask-no-joblib" ELSE c

\* callbacks= of the cell's study.optimize call.
Callbacks(c) == IF c = MlflowCell THEN {"mlflow_callback"} ELSE {}

\* The objective the cell's lambda calls.
ObjectiveOf(c) == IF c = MnmgCell THEN "objective_mg" ELSE "objective"

\* The <<low, high>> ranges each objective hands to trial.suggest_int.
SearchSpace(obj) ==
    IF obj = "objective_mg"
    THEN [max_depth |-> <<mg_max_depth_low, mg_max_depth_high>>,
          n_estimators |-> <<mg_n_estimators_low, mg_n_estimators_high>>]
    ELSE [max_depth |-> <<max_depth_low, max_depth_high>>,
          n_estimators |-> <<n_estimators_low, n_estimators_high>>]

VARIABLES
    n_workers,   \* len(c.has_what().keys()), set by the cluster cell
    X, y,        \* the data frames of the load cell
    storage,     \* study name -> the trials in sqlite:///_<name>.db
    mlruns,      \* the tracking runs created so far
    cell,        \* the cell being executed, or "idle"
    slots,       \* job slot -> the task it is evaluating
    started,     \* tasks started by the running cell
    finished,    \* tasks finished by the running cell
    batch,       \* <<index, output>> of the calls of Parallel()(...) that
                 \* have returned, in the order they returned
    calls,       \* the arguments of the calls the running cell has made
    out,         \* what the last cell printed and how it ended
    study_tpe,   \* whether the name study_tpe is bound (to the DaskCell study)
    params,      \* params_max_depth, params_n_estimators (<<>>: unbound)
    results,     \* the name results of the comparison cells
    fitted,      \* every (X, y, partition) a classifier was fitted on
    trace,       \* wrapper -> the statement sequences its returned calls ran
    runs,        \* cell -> how many times it was executed
    session,     \* the first cell executed (""; none yet)
    plan,        \* "once": every cell is executed at most once;
                 \* "again": the cell of a study is executed again;
                 \* "best": a run_study cell is executed again;
                 \* "tracking": the study with the callback, the callback
                 \* taken call by call
    active_run_stack,  \* process -> mlflow's stack of active runs
    tracked      \* the tracking runs as start_run created them, each with
                 \* what was logged into it and by the callback of which trial

vars == <<n_workers, X, y, storage, mlruns, cell, slots, started, finished,
          batch, calls, out, study_tpe, params, results, fitted, trace, runs,
          session, plan, active_run_stack, tracked>>

\* ------------------------------------------------------ library call models

\* trial.suggest_int(name, low, high): the values the sampler may answer with.
\* The sampler belongs to the library; the model lets it answer either end of
\* the range it was asked for.
suggest_int_open(low, high) == {low, high + 1}

suggest_int(low, high) == {low, high}

\* train_test_split(X, y, random_state=seed): the partition is determined by
\* the frames and the seed.
train_test_split(Xp, yp, seed) == [X |-> Xp, y |-> yp, seed |-> seed]

train_and_eval_unseeded(X_param, y_param, max_depth, n_estimators) ==
    [split |-> train_test_split(X_param, y_param, n_estimators),
     estimator |-> "cuml.ensemble.RandomForestClassifier",
     max_depth |-> max_depth,
     n_estimators |-> n_estimators]

\* train_and_eval: the classifier it builds and the partition it fits it on.
train_and_eval(X_param, y_param, max_depth, n_estimators) ==
    [split |-> train_test_split(X_param, y_param, random_state),
     estimator |-> "cuml.ensemble.RandomForestClassifier",
     max_depth |-> max_depth,
     n_estimators |-> n_estimators]

\* objective(trial, X_param, y_param) with the two values the trial suggested.
objective(X_param, y_param, max_depth, n_estimators) ==
    train_and_eval(X_param, y_param, max_depth, n_estimators)

\* objective_mg(trial, X, y) with the two values the trial suggested.
objective_mg(Xa, ya, max_depth, n_estimators) ==
    [split |-> train_test_split(Xa, ya, random_state),
     estimator |-> "cuml.dask.ensemble.RandomForestClassifier",
     max_depth |-> max_depth,
     n_estimators |-> n_estimators]

\* seq_call(X, y, max_depth, n_estimators): the fit it makes, and what it
\* returns for the score the evaluation yields.
seq_call(Xa, ya, max_depth, n_estimators) ==
    train_and_eval(Xa, ya, max_depth, n_estimators)

seq_call_result(score, max_depth, n_estimators) ==
    <<score, max_depth, n_estimators>>

mlflow_callback_unguarded(study_name, trial) ==
    [run_name |-> study_name,
     params |-> trial.params,
     accuracy |-> trial.value,
     trial |-> trial.number]

mlflow_callback_inverted(study_name, trial) ==
    LET trial_value == IF trial.value = None THEN trial.value ELSE NaN
    IN  [run_name |-> study_name,
         params |-> trial.params,
         accuracy |-> trial_value,
         trial |-> trial.number]

\* mlflow_callback(study, trial): the tracking run it creates. The run does
\* not hold the trial's number; the model keeps it to tell which call of the
\* callback created which run.
mlflow_callback(study_name, trial) ==
    LET trial_value == IF trial.value # None THEN trial.value ELSE NaN
    IN  [run_name |-> study_name,
         params |-> trial.params,
         accuracy |-> trial_value,
         trial |-> trial.number]

\* ------------------------------------------- the statements each wrapper runs

Wrappers == {"train_and_eval", "objective", "seq_call", "timed",
             "mlflow_callback", "objective_mg"}

Stmts_train_and_eval ==
    <<"train_test_split", "RandomForestClassifier", "fit", "predict",
      "accuracy_score">>

Stmts_objective == <<"suggest_int", "suggest_int", "train_and_eval">>

Stmts_seq_call == <<"train_and_eval">>

Stmts_timed == <<"time", "yield", "time", "print">>

Stmts_mlflow_callback_skip(trial) ==
    IF trial.value # None
    THEN <<"trial.value", "start_run", "print", "log_params", "log_metrics">>
    ELSE <<"float", "start_run", "print", "log_params">>

Stmts_mlflow_callback(trial) ==
    <<IF trial.value # None THEN "trial.value" ELSE "float">>
    \o <<"start_run", "print", "log_params", "log_metrics">>

Stmts_objective_mg ==
    <<"suggest_int", "suggest_int", "train_test_split",
      "RandomForestClassifier", "from_cudf", "from_cudf", "from_cudf",
      "from_cudf", "persist_across_workers", "fit", "predict", "compute",
      "accuracy_score">>

\* The calls into a library among the statements of a trace.
LibraryCalls(stmts) ==
    SelectSeq(stmts, LAMBDA s : s \notin {"trial.value", "float"})

\* --------------------------------------------------------------- the study

create_study_new(name) == <<>>

\* optuna.create_study(study_name=name, storage="sqlite:///_"+name+".db",
\* load_if_exists=True): the trials the study starts with.
create_study(name) == storage[name]

\* len(study.trials)
NumberOfTrials(name) == Len(storage[name])

Completed(trials) == {i \in 1..Len(trials) : trials[i].state = "COMPLETE"}

BestTrialsOfThisRun(trials) ==
    {i \in Completed(trials) :
        /\ i > Len(trials) - N_TRIALS
        /\ \A j \in Completed(trials) :
              j > Len(trials) - N_TRIALS => trials[j].value <= trials[i].value}

\* study.best_trial under direction="maximize": a completed trial no other
\* completed trial exceeds (indices into the trial list).
BestTrials(trials) ==
    {i \in Completed(trials) :
        \A j \in Completed(trials) : trials[j].value <= trials[i].value}

JobsUnbounded(c) == MaxWorkers

JobsOfBackend(c) == IF c = SimpleCell THEN 1 ELSE n_workers

\* n_jobs of the cell's backend: n_workers where the cell passes it.
Jobs(c) == IF c \in {DaskCell, LokyCell, MlflowCell, JoblibCell}
           THEN n_workers ELSE 1

BudgetPerJob(c) ==
    IF c \in StudyCells THEN N_TRIALS * Jobs(c)
    ELSE IF c = BaselineCell THEN 1 ELSE N_TRIALS

\* n_trials= of study.optimize, and the number of seq_call calls of a
\* comparison cell; the baseline cell calls train_and_eval once.
Budget(c) == IF c = BaselineCell THEN 1 ELSE N_TRIALS

Parallel_as_completed(returned) ==
    [k \in 1..Len(returned) |-> returned[k][2]]

\* results = Parallel()(delayed(seq_call)(...) for i in range(N_TRIALS)): the
\* outputs of the calls in the order the calls were submitted.
Parallel(returned) ==
    [i \in 1..Len(returned) |->
        returned[CHOOSE k \in 1..Len(returned) : returned[k][1] = i - 1][2]]

trials_dataframe_reversed(trials) ==
    [i \in 1..Len(trials) |-> trials[Len(trials) + 1 - i].params]

\* df = study_tpe.trials_dataframe(); the two parameter columns, one row per
\* trial of the study in trial order.
trials_dataframe(trials) == [i \in 1..Len(trials) |-> trials[i].params]

\* ------------------------------------------------------------------- tasks

NoFit == [split |-> [X |-> "", y |-> "", seed |-> 0], estimator |-> "",
          max_depth |-> 0, n_estimators |-> 0]

NoArgs == [max_depth |-> 0, n_estimators |-> 0]

Idle == [kind |-> "idle", number |-> 0, args |-> NoArgs, fit |-> NoFit]

\* What a cell printed (lines, and the numbers in them), how it ended, the
\* exception that left it and how many of its evaluations raised.
NoOutput == [cell |-> "", lines |-> <<>>, nfinished |-> -1, best |-> -1,
             value |-> None, params |-> NoArgs,
             ended |-> "none", error |-> "", failures |-> 0]

Busy == {w \in 1..MaxWorkers : slots[w].kind # "idle"}

Ran(tr, w, stmts) == [tr EXCEPT ![w] = @ \cup {stmts}]

timed_finally(name, raised) == <<"timing">>

\* timed(name): what the block prints when it is left, normally or by an
\* exception (the generator has no try/finally: nothing after the yield runs
\* when the block raises).
timed(name, raised) == IF raised THEN <<>> ELSE <<"timing">>

CatchAll(c) == {"Exception"}

\* The exceptions study.optimize swallows: the cells pass no catch=, and the
\* library's default is none.
Catch(c) == {}

\* ----------------------------------------------------------------- actions

\* The state after the cluster cell and the load cell.
Start ==
    /\ n_workers \in 1..MaxWorkers
    /\ X = "X"
    /\ y = "y"
    /\ storage = [c \in StudyCells |-> <<>>]
    /\ mlruns = <<>>
    /\ cell = "idle"
    /\ slots = [w \in 1..MaxWorkers |-> Idle]
    /\ started = 0
    /\ finished = 0
    /\ batch = <<>>
    /\ calls = <<>>
    /\ out = NoOutput
    /\ study_tpe = FALSE
    /\ params = <<>>
    /\ results = <<>>
    /\ fitted = {}
    /\ trace = [w \in Wrappers |-> {}]
    /\ runs = [c \in TimedCells \cup {BaselineCell} |-> 0]
    /\ session = ""
    /\ active_run_stack = [p \in 1..MaxWorkers |-> <<>>]
    /\ tracked = <<>>

Init ==
    /\ plan = "once"
    /\ Start

\* The same notebook in a session that executes the cell of a study again.
InitAgain ==
    /\ plan = "again"
    /\ Start

\* The same notebook in a session that executes a run_study cell again.
InitBest ==
    /\ plan = "best"
    /\ Start

\* The same notebook in a session of the study with the callback.
InitTracking ==
    /\ plan = "tracking"
    /\ Start

\* The cells a session executes: the studies of different names share no
\* state (each has the storage of its name), so a session executes the cell
\* of one study, again and again, and after the study study_tpe the cells
\* that compare with it, each once and in the notebook's order; or the
\* baseline cell. Executing the cell of a study again multiplies the trial
\* lists a session can hold, so a session that does so varies less and
\* executes the cell again while the study holds at most MaxRows trials.
\* Under "again" the sampler varies max_depth alone and an evaluation that
\* returns yields one score; under "best" the session is that of a run_study
\* cell without the comparison cells and the sampler answers the low end of
\* a range in the trials of even number and the high end in those of odd
\* number; under "tracking" the session is that of the study with the
\* callback, executed once, and the sampler varies max_depth alone.
InSession(c) ==
    \/ /\ session = ""
       /\ c \in StudyCells \cup {BaselineCell}
       /\ plan = "best" => c \in RunStudyCells \cup {BaselineCell}
       /\ plan = "tracking" => c = MlflowCell
    \/ plan \in {"again", "best"} /\ session \in StudyCells /\ c = session
                      /\ params = <<>> /\ runs[c] < MaxRuns
                      /\ Len(storage[c]) <= MaxRows
    \/ session = DaskCell /\ c = JoblibCell /\ runs[JoblibCell] = 0
                         /\ runs[SeqCell] = 0 /\ plan # "best"
    \/ session = DaskCell /\ c = SeqCell /\ runs[SeqCell] = 0
                         /\ plan # "best"

\* What the sampler of this session answers when asked for name in range.
Sampled(name, range) ==
    IF plan \in {"again", "tracking"} /\ name = "n_estimators"
    THEN {range[1]}
    ELSE IF plan = "best"
    THEN {v \in suggest_int(range[1], range[2]) :
             v = range[1 + (Len(storage[cell]) % 2)]}
    ELSE suggest_int(range[1], range[2])

\* What an evaluation of this session yields when it returns.
Yields == IF plan = "again" THEN {1} ELSE Outcomes

\* A cell starts: timed() takes t0 and, in a study cell, create_study opens
\* the study of the cell's name.
StartCell(c) ==
    /\ cell = "idle"
    /\ InSession(c)
    /\ c \in CallCells => Len(params) >= N_TRIALS
    /\ session' = IF session = "" THEN c ELSE session
    /\ cell' = c
    /\ runs' = [runs EXCEPT ![c] = @ + 1]
    /\ started' = 0
    /\ finished' = 0
    /\ batch' = <<>>
    /\ calls' = <<>>
    /\ out' = [NoOutput EXCEPT !.cell = c, !.ended = "running"]
    /\ storage' = IF c \in StudyCells
                  THEN [storage EXCEPT ![c] = create_study(c)]
                  ELSE storage
    /\ UNCHANGED <<n_workers, X, y, mlruns, slots, study_tpe, params, results,
                   fitted, trace, plan,
                   active_run_stack, tracked>>

\* study.optimize starts one more trial on a free job: the trial is created,
\* the objective asks it for the two values and the classifier's fit begins.
StartTrial(w) ==
    /\ cell \in StudyCells
    /\ started < Budget(cell)
    /\ w \in 1..Jobs(cell)
    /\ slots[w].kind = "idle"
    /\ \E max_depth \in Sampled("max_depth",
                                 SearchSpace(ObjectiveOf(cell)).max_depth),
          n_estimators \in Sampled("n_estimators",
                                    SearchSpace(ObjectiveOf(cell)).n_estimators) :
          LET fit == IF ObjectiveOf(cell) = "objective_mg"
                     THEN objective_mg(X, y, max_depth, n_estimators)
                     ELSE objective(X, y, max_depth, n_estimators)
              trial == [number |-> Len(storage[cell]),
                        state |-> "RUNNING",
                        params |-> [max_depth |-> max_depth,
                                    n_estimators |-> n_estimators],
                        value |-> None,
                        fail_reason |-> "",
                        evals |-> 1]
          IN  /\ storage' = [storage EXCEPT ![cell] = Append(@, trial)]
              /\ slots' = [slots EXCEPT ![w] =
                              [kind |-> "trial", number |-> trial.number,
                               args |-> trial.params, fit |-> fit]]
              /\ fitted' = fitted \cup {fit.split}
    /\ started' = started + 1
    /\ UNCHANGED <<calls, n_workers, X, y, mlruns, cell, finished, batch, out,
                   study_tpe, params, results, trace, runs,
                   session, plan, active_run_stack, tracked>>

\* The evaluation of a trial returns a score: the study records it (a NaN
\* score makes the trial FAIL with no value) and calls the callbacks.
FinishTrial(w) ==
    /\ cell \in StudyCells
    /\ slots[w].kind = "trial"
    /\ \E score \in Yields :
          LET i == slots[w].number + 1
              told == IF score = NaN
                      THEN [storage[cell][i] EXCEPT !.state = "FAIL",
                                                    !.fail_reason = "nan"]
                      ELSE [storage[cell][i] EXCEPT !.state = "COMPLETE",
                                                    !.value = score]
              tr1 == IF ObjectiveOf(cell) = "objective_mg"
                     THEN Ran(trace, "objective_mg", Stmts_objective_mg)
                     ELSE Ran(Ran(trace, "train_and_eval", Stmts_train_and_eval),
                              "objective", Stmts_objective)
          IN  /\ storage' = [storage EXCEPT ![cell][i] = told]
              /\ IF "mlflow_callback" \in Callbacks(cell)
                 THEN /\ mlruns' = Append(mlruns, mlflow_callback(cell, told))
                      /\ trace' = Ran(tr1, "mlflow_callback",
                                      Stmts_mlflow_callback(told))
                 ELSE /\ mlruns' = mlruns
                      /\ trace' = tr1
    /\ slots' = [slots EXCEPT ![w] = Idle]
    /\ finished' = finished + 1
    /\ UNCHANGED <<calls, n_workers, X, y, cell, started, batch, out, study_tpe,
                   params, results, fitted, runs,
                   session, plan, active_run_stack, tracked>>

\* The evaluation of a trial raises (out of memory in fit, say): the study
\* marks the trial FAIL. An exception the study does not catch leaves
\* study.optimize, the timed block and the cell, and the other jobs are
\* abandoned; a caught one ends the trial and the callbacks are called.
RaiseTrial(w) ==
    /\ cell \in StudyCells
    /\ slots[w].kind = "trial"
    /\ LET i == slots[w].number + 1
           told == [storage[cell][i] EXCEPT !.state = "FAIL",
                                            !.fail_reason = "error"]
       IN  /\ storage' = [storage EXCEPT ![cell][i] = told]
           /\ IF "Exception" \in Catch(cell)
              THEN /\ slots' = [slots EXCEPT ![w] = Idle]
                   /\ finished' = finished + 1
                   /\ out' = [out EXCEPT !.failures = @ + 1]
                   /\ cell' = cell
                   /\ IF "mlflow_callback" \in Callbacks(cell)
                      THEN /\ mlruns' = Append(mlruns,
                                               mlflow_callback(cell, told))
                           /\ trace' = Ran(trace, "mlflow_callback",
                                           Stmts_mlflow_callback(told))
                      ELSE UNCHANGED <<mlruns, trace>>
              ELSE /\ slots' = [v \in 1..MaxWorkers |-> Idle]
                   /\ finished' = finished
                   /\ out' = [out EXCEPT !.failures = @ + 1,
                                         !.lines = timed(TimerName(cell), TRUE),
                                         !.ended = "raised",
                                         !.error = "fit"]
                   /\ cell' = "idle"
                   /\ UNCHANGED <<mlruns, trace>>
    /\ UNCHANGED <<calls, n_workers, X, y, started, batch, study_tpe, params,
                   results, fitted, runs,
                   session, plan, active_run_stack, tracked>>

\* study.optimize has returned: the timed block prints its line; run_study
\* then prints the number of trials and the best trial and returns the study
\* (study.best_trial raises when no trial of the study completed).
EndStudy ==
    /\ cell \in StudyCells
    /\ finished = Budget(cell)
    /\ Busy = {}
    /\ LET timing == timed(TimerName(cell), FALSE)
           trials == storage[cell]
           tr == Ran(trace, "timed", Stmts_timed)
       IN  /\ trace' = tr
           /\ IF cell \notin RunStudyCells
              THEN /\ out' = [out EXCEPT !.lines = timing, !.ended = "done"]
                   /\ UNCHANGED study_tpe
              ELSE IF BestTrials(trials) = {}
              THEN /\ out' = [out EXCEPT !.lines = timing \o <<"finished">>,
                                         !.nfinished = NumberOfTrials(cell),
                                         !.ended = "raised",
                                         !.error = "ValueError"]
                   /\ UNCHANGED study_tpe
              ELSE \E b \in BestTrials(trials) :
                   /\ out' = [out EXCEPT
                                 !.lines = timing \o
                                     <<"finished", "best", "value", "params">>,
                                 !.nfinished = NumberOfTrials(cell),
                                 !.best = trials[b].number,
                                 !.value = trials[b].value,
                                 !.params = trials[b].params,
                                 !.ended = "returned"]
                   /\ study_tpe' = (study_tpe \/ cell = DaskCell)
    /\ cell' = "idle"
    /\ UNCHANGED <<calls, n_workers, X, y, storage, mlruns, slots, started, finished,
                   batch, params, results, fitted, runs,
                   session, plan, active_run_stack, tracked>>

\* df = study_tpe.trials_dataframe(); params_max_depth, params_n_estimators
ParamsCell ==
    /\ cell = "idle"
    /\ study_tpe
    /\ Len(storage[DaskCell]) <= MaxRows
    /\ params' = trials_dataframe(storage[DaskCell])
    /\ UNCHANGED <<calls, n_workers, X, y, storage, mlruns, cell, slots, started,
                   finished, batch, out, study_tpe, results, fitted, trace,
                   runs,
                   session, plan, active_run_stack, tracked>>

\* The next call of a comparison cell (seq_call with the i-th parameters) or
\* the baseline call (train_and_eval with the defaults) starts on a free job.
StartCall(w) ==
    /\ cell \in CallCells \cup {BaselineCell}
    /\ started < Budget(cell)
    /\ w \in 1..Jobs(cell)
    /\ slots[w].kind = "idle"
    /\ LET args == IF cell = BaselineCell
                   THEN [max_depth |-> default_max_depth,
                         n_estimators |-> default_n_estimators]
                   ELSE params[started + 1]
           fit == IF cell = BaselineCell
                  THEN train_and_eval(X, y, args.max_depth, args.n_estimators)
                  ELSE seq_call(X, y, args.max_depth, args.n_estimators)
       IN  /\ slots' = [slots EXCEPT ![w] =
                           [kind |-> "call", number |-> started,
                            args |-> args, fit |-> fit]]
           /\ fitted' = fitted \cup {fit.split}
           /\ calls' = Append(calls, args)
    /\ started' = started + 1
    /\ UNCHANGED <<n_workers, X, y, storage, mlruns, cell, finished, batch,
                   out, study_tpe, params, results, trace, runs,
                   session, plan, active_run_stack, tracked>>

\* A call returns its score: Parallel keeps seq_call's result at the call's
\* index, the loop binds it to results.
FinishCall(w) ==
    /\ cell \in CallCells \cup {BaselineCell}
    /\ slots[w].kind = "call"
    /\ \E score \in Yields :
          LET r == seq_call_result(score, slots[w].args.max_depth,
                                   slots[w].args.n_estimators)
          IN  /\ batch' = IF cell = JoblibCell
                          THEN Append(batch, <<slots[w].number, r>>)
                          ELSE batch
              /\ results' = IF cell = SeqCell THEN r ELSE results
    /\ trace' = IF cell = BaselineCell
                THEN Ran(trace, "train_and_eval", Stmts_train_and_eval)
                ELSE Ran(Ran(trace, "train_and_eval", Stmts_train_and_eval),
                         "seq_call", Stmts_seq_call)
    /\ slots' = [slots EXCEPT ![w] = Idle]
    /\ finished' = finished + 1
    /\ UNCHANGED <<calls, n_workers, X, y, storage, mlruns, cell, started, out,
                   study_tpe, params, fitted, runs,
                   session, plan, active_run_stack, tracked>>

\* A call raises: the exception leaves Parallel or the loop, the timed block
\* and the cell.
RaiseCall(w) ==
    /\ cell \in CallCells \cup {BaselineCell}
    /\ slots[w].kind = "call"
    /\ slots' = [v \in 1..MaxWorkers |-> Idle]
    /\ out' = [out EXCEPT !.failures = @ + 1,
                          !.lines = timed(TimerName(cell), TRUE),
                          !.ended = "raised",
                          !.error = "fit"]
    /\ cell' = "idle"
    /\ UNCHANGED <<calls, n_workers, X, y, storage, mlruns, started, finished, batch,
                   study_tpe, params, results, fitted, trace, runs,
                   session, plan, active_run_stack, tracked>>

\* Every call has returned: the joblib cell binds the list of results in
\* submission order, the cell prints results and the timed block its line;
\* the baseline cell prints the score.
EndCalls ==
    /\ cell \in CallCells \cup {BaselineCell}
    /\ finished = Budget(cell)
    /\ Busy = {}
    /\ results' = IF cell = JoblibCell
                  THEN Parallel(batch)
                  ELSE results
    /\ out' = [out EXCEPT
                  !.lines = IF cell = BaselineCell
                            THEN <<"score">>
                            ELSE <<"results">> \o timed(TimerName(cell), FALSE),
                  !.ended = "done"]
    /\ trace' = IF cell = BaselineCell THEN trace
                ELSE Ran(trace, "timed", Stmts_timed)
    /\ cell' = "idle"
    /\ UNCHANGED <<calls, n_workers, X, y, storage, mlruns, slots, started, finished,
                   batch, study_tpe, params, fitted, runs,
                   session, plan, active_run_stack, tracked>>

Next ==
    \/ \E c \in TimedCells \cup {BaselineCell} : StartCell(c)
    \/ \E w \in 1..MaxWorkers : StartTrial(w)
    \/ \E w \in 1..MaxWorkers : FinishTrial(w)
    \/ \E w \in 1..MaxWorkers : RaiseTrial(w)
    \/ EndStudy
    \/ ParamsCell
    \/ \E w \in 1..MaxWorkers : StartCall(w)
    \/ \E w \in 1..MaxWorkers : FinishCall(w)
    \/ \E w \in 1..MaxWorkers : RaiseCall(w)
    \/ EndCalls

Spec == Init /\ [][Next]_vars

SpecAgain == InitAgain /\ [][Next]_vars

SpecBest == InitBest /\ [][Next]_vars

\* ------------------------------------- the callback, one library call a step

ProcessOfClient(w) == 1

\* The process a job's tasks run in: the dask workers of
\* LocalCUDACluster(threads_per_worker=1) are processes of one thread each.
Process(w) == w

\* What mlflow.start_run(run_name=name) creates, called for trial number n.
NewRun(name, n) ==
    [run_name |-> name, started_by |-> n, params |-> <<>>, metrics |-> <<>>,
     status |-> "RUNNING"]

\* mlflow.end_run(status) in a process with this stack of active runs: the
\* run on top of the stack is terminated and popped.
Terminated(stack, status) ==
    IF stack = <<>> THEN tracked
    ELSE [tracked EXCEPT ![stack[Len(stack)]].status = status]

Popped(stack) ==
    IF stack = <<>> THEN stack ELSE SubSeq(stack, 1, Len(stack) - 1)

\* The task of job w holds a trial of the study with the callback.
Told(w) == storage[MlflowCell][slots[w].number + 1]

\* The exception of a task reaches study.optimize, the timed block and the
\* cell, unless an earlier one already has; the tasks in flight on the other
\* workers run on.
Propagated(error) ==
    IF cell = "idle" THEN UNCHANGED <<cell, out>>
    ELSE /\ cell' = "idle"
         /\ out' = [out EXCEPT !.failures = @ + 1,
                               !.lines = timed(TimerName(cell), TRUE),
                               !.ended = "raised",
                               !.error = error]

\* The evaluation of a trial returns a score: the study records it and the
\* task goes on to the callback.
ReturnTrial(w) ==
    /\ session = MlflowCell
    /\ slots[w].kind = "trial"
    /\ \E score \in Yields :
          storage' = [storage EXCEPT ![MlflowCell][slots[w].number + 1] =
                         IF score = NaN
                         THEN [@ EXCEPT !.state = "FAIL", !.fail_reason = "nan"]
                         ELSE [@ EXCEPT !.state = "COMPLETE", !.value = score]]
    /\ slots' = [slots EXCEPT ![w].kind = "start_run"]
    /\ UNCHANGED <<n_workers, X, y, mlruns, cell, started, finished, batch,
                   calls, out, study_tpe, params, results, fitted, trace,
                   runs, session, plan, active_run_stack, tracked>>

\* with mlflow.start_run(run_name=study.study_name): a new run becomes the
\* active run of the process; start_run raises when the process has one.
StartRun(w) ==
    /\ slots[w].kind = "start_run"
    /\ IF active_run_stack[Process(w)] # <<>>
       THEN /\ slots' = [slots EXCEPT ![w] = Idle]
            /\ Propagated("active run")
            /\ UNCHANGED <<active_run_stack, tracked>>
       ELSE /\ tracked' = Append(tracked, NewRun(MlflowCell, slots[w].number))
            /\ active_run_stack' =
                   [active_run_stack EXCEPT ![Process(w)] =
                       Append(@, Len(tracked) + 1)]
            /\ slots' = [slots EXCEPT ![w].kind = "log_params"]
            /\ UNCHANGED <<cell, out>>
    /\ UNCHANGED <<n_workers, X, y, storage, mlruns, started, finished, batch,
                   calls, study_tpe, params, results, fitted, trace, runs,
                   session, plan>>

\* print(trial.params); mlflow.log_params(trial.params): into the active run
\* of the process.
LogParams(w) ==
    /\ slots[w].kind = "log_params"
    /\ active_run_stack[Process(w)] # <<>>
    /\ LET stack == active_run_stack[Process(w)]
       IN  tracked' = [tracked EXCEPT ![stack[Len(stack)]].params =
                          Append(@, <<slots[w].number,
                                      mlflow_callback(MlflowCell,
                                                      Told(w)).params>>)]
    /\ slots' = [slots EXCEPT ![w].kind = "log_metrics"]
    /\ UNCHANGED <<n_workers, X, y, storage, mlruns, cell, started, finished,
                   batch, calls, out, study_tpe, params, results, fitted,
                   trace, runs, session, plan, active_run_stack>>

\* mlflow.log_metrics({"accuracy": trial_value}): into the active run of the
\* process.
LogMetrics(w) ==
    /\ slots[w].kind = "log_metrics"
    /\ active_run_stack[Process(w)] # <<>>
    /\ LET stack == active_run_stack[Process(w)]
       IN  tracked' = [tracked EXCEPT ![stack[Len(stack)]].metrics =
                          Append(@, <<slots[w].number,
                                      mlflow_callback(MlflowCell,
                                                      Told(w)).accuracy>>)]
    /\ slots' = [slots EXCEPT ![w].kind = "end_run"]
    /\ UNCHANGED <<n_workers, X, y, storage, mlruns, cell, started, finished,
                   batch, calls, out, study_tpe, params, results, fitted,
                   trace, runs, session, plan, active_run_stack>>

\* The with block is left normally: end_run("FINISHED"), and the callback
\* and the task return.
EndRun(w) ==
    /\ slots[w].kind = "end_run"
    /\ tracked' = Terminated(active_run_stack[Process(w)], "FINISHED")
    /\ active_run_stack' = [active_run_stack EXCEPT ![Process(w)] = Popped(@)]
    /\ slots' = [slots EXCEPT ![w] = Idle]
    /\ finished' = finished + 1
    /\ UNCHANGED <<n_workers, X, y, storage, mlruns, cell, started, batch,
                   calls, out, study_tpe, params, results, fitted, trace,
                   runs, session, plan>>

\* log_params or log_metrics raises: the with block is left by the
\* exception, end_run("FAILED"), and the exception leaves the callback.
LogRaises(w) ==
    /\ slots[w].kind \in {"log_params", "log_metrics"}
    /\ tracked' = Terminated(active_run_stack[Process(w)], "FAILED")
    /\ active_run_stack' = [active_run_stack EXCEPT ![Process(w)] = Popped(@)]
    /\ slots' = [slots EXCEPT ![w] = Idle]
    /\ Propagated("log")
    /\ UNCHANGED <<n_workers, X, y, storage, mlruns, started, finished, batch,
                   calls, study_tpe, params, results, fitted, trace, runs,
                   session, plan>>

NextTracking ==
    \/ \E c \in TimedCells : StartCell(c)
    \/ \E w \in 1..MaxWorkers : StartTrial(w)
    \/ \E w \in 1..MaxWorkers : ReturnTrial(w)
    \/ \E w \in 1..MaxWorkers : StartRun(w)
    \/ \E w \in 1..MaxWorkers : LogParams(w)
    \/ \E w \in 1..MaxWorkers : LogMetrics(w)
    \/ \E w \in 1..MaxWorkers : LogRaises(w)
    \/ \E w \in 1..MaxWorkers : EndRun(w)
    \/ EndStudy

SpecTracking == InitTracking /\ [][NextTracking]_vars

\* ------------------------------------------------------------------ claims

TimingLines(lines) == Cardinality({i \in DOMAIN lines : lines[i] = "timing"})

\* The trials the running (or last) execution of study cell c created.
OwnTrials(c) ==
    {i \in 1..Len(storage[c]) : i > Len(storage[c]) - started}

\* C1: once an evaluation of a cell has raised, the cell is over at once and
\* it ended by that very exception: no wrapper caught it, the timed block
\* printed nothing, run_study printed nothing and returned no study.
C1_FailurePropagates ==
    out.failures > 0 =>
        /\ cell = "idle"
        /\ out.failures = 1
        /\ out.ended = "raised"
        /\ out.error = "fit"
        /\ out.lines = <<>>
        /\ out.nfinished = -1
        /\ out.best = -1

\* C1 witness: a run_study cell was left by a raised evaluation after another
\* trial of the same execution had finished.
C1_Witness ==
    /\ out.cell \in RunStudyCells
    /\ out.failures > 0
    /\ finished > 0
    /\ out.ended = "raised"

\* C2 as stated: every wrapper runs one and the same sequence of statements
\* whatever its input.
C2_NoBranching ==
    \A w \in Wrappers : Cardinality(trace[w]) <= 1

\* C2 amended: every wrapper but mlflow_callback runs one sequence of
\* statements; mlflow_callback runs one of two, which differ in their first
\* statement alone (the value logged is trial.value, or float("nan") when the
\* trial has none), and makes the same library calls in both.
C2_BranchOnlyInCallback ==
    /\ \A w \in Wrappers \ {"mlflow_callback"} : Cardinality(trace[w]) <= 1
    /\ \A s, t \in trace["mlflow_callback"] :
          /\ LibraryCalls(s) = LibraryCalls(t)
          /\ Tail(s) = Tail(t)
          /\ Head(s) \in {"trial.value", "float"}
    /\ \A k \in DOMAIN mlruns :
          LET t == storage[MlflowCell][mlruns[k].trial + 1]
          IN  mlruns[k].accuracy = IF t.value # None THEN t.value ELSE NaN

\* C2 witness: the callback has run for a trial with a value and for one
\* without, and objective, train_and_eval and timed have returned.
C2_Witness ==
    /\ Cardinality(trace["mlflow_callback"]) = 2
    /\ trace["objective"] # {}
    /\ trace["train_and_eval"] # {}
    /\ trace["timed"] # {}

\* C3: in every trial of every study cell the classifier is built with
\* 10 <= max_depth <= 15 and 200 <= n_estimators <= 700, the values the trial
\* recorded; objective and objective_mg ask for the same ranges.
C3_SearchSpace ==
    /\ SearchSpace("objective") = SearchSpace("objective_mg")
    /\ \A w \in 1..MaxWorkers :
          slots[w].kind = "trial" =>
              /\ slots[w].fit.max_depth \in 10..15
              /\ slots[w].fit.n_estimators \in 200..700
              /\ slots[w].fit.max_depth = slots[w].args.max_depth
              /\ slots[w].fit.n_estimators = slots[w].args.n_estimators
              /\ storage[cell][slots[w].number + 1].params = slots[w].args
    /\ \A c \in StudyCells : \A i \in 1..Len(storage[c]) :
          /\ storage[c][i].params.max_depth \in 10..15
          /\ storage[c][i].params.n_estimators \in 200..700

\* C3 witness: a trial of the multi-GPU study is being evaluated with the
\* largest max_depth and the smallest n_estimators.
C3_Witness ==
    /\ cell = MnmgCell
    /\ \E w \in 1..MaxWorkers :
          /\ slots[w].kind = "trial"
          /\ slots[w].fit.max_depth = 15
          /\ slots[w].fit.n_estimators = 200

\* C4: a timed cell prints at most one timing line, prints it only when all
\* N_TRIALS evaluations of this execution have finished and none is running,
\* and has printed exactly one when it is over and no evaluation raised.
C4_TimedOnce ==
    out.cell \in TimedCells =>
        /\ TimingLines(out.lines) <= 1
        /\ TimingLines(out.lines) = 1 =>
              /\ cell = "idle"
              /\ finished = N_TRIALS
              /\ started = N_TRIALS
              /\ Busy = {}
              /\ out.cell \in StudyCells =>
                    \A i \in OwnTrials(out.cell) :
                        storage[out.cell][i].state # "RUNNING"
        /\ (cell = "idle" /\ out.failures = 0) => TimingLines(out.lines) = 1

\* C4 witness: the joblib cell is over and has printed its timing line.
C4_Witness ==
    /\ out.cell = JoblibCell
    /\ cell = "idle"
    /\ TimingLines(out.lines) = 1

ParamsOf(trials, n) == {trials[i].params : i \in 1..n}

CallsMade == {calls[i] : i \in DOMAIN calls}

C6_OneRunPerTrial ==
    /\ session # MlflowCell => mlruns = <<>>
    /\ \A k \in DOMAIN mlruns :
          /\ mlruns[k].run_name = MlflowCell
          /\ mlruns[k].trial < Len(storage[MlflowCell])
    /\ \A i \in 1..Len(storage[MlflowCell]) :
          LET t == storage[MlflowCell][i]
              rs == {k \in DOMAIN mlruns : mlruns[k].trial = t.number}
          IN  /\ t.state = "RUNNING" => rs = {}
              /\ t.state = "COMPLETE" => Cardinality(rs) = 1
              /\ t.fail_reason = "nan" => Cardinality(rs) = 1
              /\ t.fail_reason = "error" => rs = {}
              /\ \A k \in rs :
                    /\ mlruns[k].params = t.params
                    /\ t.state = "COMPLETE" => mlruns[k].accuracy = t.value
    /\ (out.cell = MlflowCell /\ cell = "idle" /\ out.failures = 0
            /\ runs[MlflowCell] = 1) =>
          Len(mlruns) = N_TRIALS

\* C6 witness: run_study with the callback has returned over a fresh study
\* and a completed trial has its run.
C6_Witness ==
    /\ out.cell = MlflowCell
    /\ out.ended = "returned"
    /\ runs[MlflowCell] = 1
    /\ Len(mlruns) = N_TRIALS
    /\ \E k \in DOMAIN mlruns : mlruns[k].accuracy \in Scores

\* C7: a study keeps the trials of every execution of its cell: the trials
\* are numbered in order from 0, there are never more than N_TRIALS per
\* execution, and when the cell is over and no evaluation has raised in any
\* execution there are exactly N_TRIALS per execution.
C7_TrialsPersist ==
    \A c \in StudyCells :
        /\ \A i \in 1..Len(storage[c]) : storage[c][i].number = i - 1
        /\ Len(storage[c]) <= runs[c] * N_TRIALS
        /\ (cell # c /\ \A i \in 1..Len(storage[c]) :
                            storage[c][i].fail_reason # "error") =>
              /\ Len(storage[c]) = runs[c] * N_TRIALS
              /\ \A i \in 1..Len(storage[c]) : storage[c][i].state # "RUNNING"

\* C7 witness: the loky cell was executed twice without a raised evaluation
\* and its study holds the trials of both executions.
C7_Witness ==
    /\ cell = "idle"
    /\ runs[LokyCell] = 2
    /\ Len(storage[LokyCell]) = 2 * N_TRIALS
    /\ \A i \in 1..Len(storage[LokyCell]) :
          storage[LokyCell][i].fail_reason # "error"

\* C8: X and y are the frames of the load cell in every state, and every
\* classifier, of a trial, a comparison call or the baseline, is fitted on
\* the partition of those frames under random_state=77.
C8_SameData ==
    /\ X = "X"
    /\ y = "y"
    /\ fitted \subseteq {train_test_split("X", "y", 77)}
    /\ \A w \in 1..MaxWorkers :
          slots[w].kind # "idle" =>
              slots[w].fit.split = train_test_split("X", "y", 77)

\* C8 witness: two trials with different hyperparameters are being evaluated
\* at once.
C8_Witness ==
    /\ fitted # {}
    /\ \E v, w \in 1..MaxWorkers :
          /\ slots[v].kind = "trial"
          /\ slots[w].kind = "trial"
          /\ slots[v].args.max_depth # slots[w].args.max_depth
          /\ slots[v].args.n_estimators # slots[w].args.n_estimators

\* C9 as stated: the number run_study prints as the number of finished
\* trials is the number of trials of the study that completed with a value.
C9_CountsCompletedTrials ==
    (out.cell \in RunStudyCells /\ out.nfinished # -1 /\ cell = "idle") =>
        out.nfinished = Cardinality(Completed(storage[out.cell]))

\* C10: at most N_TRIALS trials are started by one execution of a study
\* cell, whatever the number of workers; every trial is evaluated once and
\* is held by at most one job; an execution in which no evaluation raised
\* has started and finished exactly N_TRIALS trials when it is over, and the
\* study holds exactly those when it was fresh.
C10_TrialsInTotal ==
    \A c \in StudyCells :
        /\ \A i \in 1..Len(storage[c]) :
              /\ storage[c][i].evals = 1
              /\ Cardinality({w \in 1..MaxWorkers :
                                 /\ cell = c
                                 /\ slots[w].kind = "trial"
                                 /\ slots[w].number = i - 1})
                    = IF cell = c /\ i \in OwnTrials(c)
                         /\ storage[c][i].state = "RUNNING"
                      THEN 1 ELSE 0
        /\ out.cell = c =>
              /\ started <= N_TRIALS
              /\ finished <= started
              /\ Cardinality(Busy) = IF cell = c THEN started - finished ELSE 0
              /\ (cell = "idle" /\ out.failures = 0) =>
                    /\ started = N_TRIALS
                    /\ finished = N_TRIALS
                    /\ runs[c] = 1 => Len(storage[c]) = N_TRIALS

\* C10 witness: run_study has returned over a fresh study on the largest
\* cluster.
C10_Witness ==
    /\ n_workers = MaxWorkers
    /\ out.cell = DaskCell
    /\ out.ended = "returned"
    /\ runs[DaskCell] = 1
    /\ Len(storage[DaskCell]) = N_TRIALS

\* The calls by which a program would schedule, lock or cancel work itself.
SchedulingCalls ==
    {"Lock", "acquire", "release", "Queue", "put", "get", "submit", "cancel"}

\* C11: while a study cell that passes n_jobs=n_workers is optimizing, the
\* trials being evaluated at once are never more than n_workers, each on a
\* job of its own among the first n_workers; no statement of a wrapper of
\* the notebook locks, queues or cancels.
C11_AtMostNWorkers ==
    /\ cell \in ParallelStudyCells =>
          /\ Cardinality(Busy) <= n_workers
          /\ Busy \subseteq 1..n_workers
          /\ Cardinality({i \in 1..Len(storage[cell]) :
                             /\ i \in OwnTrials(cell)
                             /\ storage[cell][i].state = "RUNNING"})
                <= n_workers
    /\ \A w \in Wrappers : \A stmts \in trace[w] :
          \A i \in DOMAIN stmts : stmts[i] \notin SchedulingCalls

\* C11 witness: on a cluster smaller than the largest, every worker of the
\* loky study is evaluating a trial while a trial of the budget waits.
C11_Witness ==
    /\ cell = LokyCell
    /\ n_workers < MaxWorkers
    /\ Cardinality(Busy) = n_workers
    /\ started < N_TRIALS

\* C12: the trial run_study prints as the best trial is a completed trial of
\* the study, of this execution or loaded from an earlier one, whose value
\* no completed trial of the study exceeds, and the value and the parameters
\* printed are that trial's; run_study prints no best trial when no trial of
\* the study completed.
C12_BestTrialIsMaximum ==
    out.cell \in RunStudyCells =>
        /\ out.best # -1 =>
              LET trials == storage[out.cell]
                  b == out.best + 1
              IN  /\ b \in 1..Len(trials)
                  /\ trials[b].state = "COMPLETE"
                  /\ \A j \in 1..Len(trials) :
                        trials[j].state = "COMPLETE" =>
                            trials[j].value <= trials[b].value
                  /\ out.value = trials[b].value
                  /\ out.params = trials[b].params
        /\ (cell = "idle" /\ out.failures = 0) =>
              (out.best = -1 <=> Completed(storage[out.cell]) = {})

\* C12 witness: run_study has returned from an execution in which every
\* trial scored less than a trial loaded from the earlier execution, and it
\* printed the loaded trial, whose parameters another trial does not share.
C12_Witness ==
    /\ out.cell = DaskCell
    /\ out.ended = "returned"
    /\ runs[DaskCell] = 2
    /\ out.best + 1 \notin OwnTrials(DaskCell)
    /\ \A i \in OwnTrials(DaskCell) :
          /\ storage[DaskCell][i].state = "COMPLETE"
          /\ storage[DaskCell][i].value < out.value
    /\ \E i \in 1..Len(storage[DaskCell]) :
          storage[DaskCell][i].params # out.params

\* C13: every call of mlflow_callback, for a trial with a value or without
\* one, made the same library calls and created a run named after the study
\* with the trial's parameters; the accuracy of the run is NaN when the
\* trial has no value and the trial's value when it has one; every trial
\* that ended without a value by a NaN score has such a run.
C13_LogsNaNWithoutValue ==
    /\ \A stmts \in trace["mlflow_callback"] :
          LibraryCalls(stmts) =
              <<"start_run", "print", "log_params", "log_metrics">>
    /\ \A k \in DOMAIN mlruns :
          LET t == storage[MlflowCell][mlruns[k].trial + 1]
          IN  /\ mlruns[k].run_name = MlflowCell
              /\ mlruns[k].params = t.params
              /\ t.value = None => mlruns[k].accuracy = NaN
              /\ t.value # None => mlruns[k].accuracy = t.value
              /\ mlruns[k].accuracy # None
    /\ \A i \in 1..Len(storage[MlflowCell]) :
          storage[MlflowCell][i].fail_reason = "nan" =>
              \E k \in DOMAIN mlruns :
                  /\ mlruns[k].trial = i - 1
                  /\ mlruns[k].accuracy = NaN

\* C13 witness: the callback was called for a trial that failed without a
\* value and the study went on to evaluate another trial.
C13_Witness ==
    /\ cell = MlflowCell
    /\ \E k \in DOMAIN mlruns :
          /\ storage[MlflowCell][mlruns[k].trial + 1].value = None
          /\ storage[MlflowCell][mlruns[k].trial + 1].state = "FAIL"
          /\ mlruns[k].accuracy = NaN
    /\ Busy # {}

\* C14: every call of the joblib cell that has returned gave back the score
\* with the two hyperparameters of its own index, and when the cell is over
\* results holds N_TRIALS entries, entry i being the output of call i with
\* the i-th parameters, in whatever order the calls returned.
C14_ResultsInSubmissionOrder ==
    out.cell = JoblibCell =>
        /\ \A k \in DOMAIN batch :
              LET i == batch[k][1] + 1
              IN  /\ i \in 1..started
                  /\ batch[k][2][1] \in Outcomes
                  /\ batch[k][2][2] = params[i].max_depth
                  /\ batch[k][2][3] = params[i].n_estimators
                  /\ \A j \in DOMAIN batch : batch[j][1] = batch[k][1] => j = k
        /\ out.ended = "done" =>
              /\ Len(results) = N_TRIALS
              /\ \A i \in 1..N_TRIALS :
                    /\ results[i][2] = params[i].max_depth
                    /\ results[i][3] = params[i].n_estimators
                    /\ \E k \in DOMAIN batch : batch[k] = <<i - 1, results[i]>>

\* C14 witness: the joblib cell is over, its second call returned before its
\* first, with other hyperparameters and another score.
C14_Witness ==
    /\ out.cell = JoblibCell
    /\ out.ended = "done"
    /\ batch[1][1] > batch[2][1]
    /\ params[1] # params[2]
    /\ results[1][1] # results[2][1]

\* C15: while the single-process study or the multi-GPU study is optimizing,
\* at most one trial is being evaluated, whatever the number of workers: a
\* trial is started only when every earlier trial of the execution has
\* finished; in every state at most one classifier of cuml.dask is being
\* fitted, and only by the multi-GPU study.
C15_OneTrialAtATime ==
    /\ cell \in SequentialStudyCells =>
          /\ Cardinality(Busy) <= 1
          /\ started - finished <= 1
          /\ \A i \in OwnTrials(cell) :
                storage[cell][i].state = "RUNNING" => i = Len(storage[cell])
    /\ Cardinality({w \in 1..MaxWorkers :
                       slots[w].fit.estimator =
                           "cuml.dask.ensemble.RandomForestClassifier"}) <= 1
    /\ \A w \in 1..MaxWorkers :
          slots[w].fit.estimator = "cuml.dask.ensemble.RandomForestClassifier"
              => /\ cell = MnmgCell
                 /\ slots[w].kind = "trial"

\* C15 witness: on the largest cluster the multi-GPU study is evaluating its
\* second trial after its first has completed.
C15_Witness ==
    /\ cell = MnmgCell
    /\ n_workers = MaxWorkers
    /\ started = 2
    /\ finished = 1
    /\ storage[MnmgCell][Len(storage[MnmgCell]) - 1].state = "COMPLETE"
    /\ \E w \in 1..MaxWorkers :
          slots[w].fit.estimator = "cuml.dask.ensemble.RandomForestClassifier"

\* The callback of the task of job w is inside its with block.
InCallback(w) == slots[w].kind \in {"log_params", "log_metrics", "end_run"}

\* C16: with callbacks of several trials in progress at once, start_run
\* never finds a run active; the active run of a callback's process is the
\* run that callback started; every run is named after the study, belongs to
\* one trial and holds at most the parameters and the accuracy of that
\* trial, logged by its callback; a run is running exactly while its
\* callback is inside the with block, also after a logging call raised; and
\* when the study has ended without an exception there are N_TRIALS runs,
\* all finished, and no process has an active run.
C16_RunsDoNotInterfere ==
    /\ out.error # "active run"
    /\ \A p \in 1..MaxWorkers : Len(active_run_stack[p]) <= 1
    /\ \A w \in 1..MaxWorkers :
          InCallback(w) =>
              /\ Len(active_run_stack[Process(w)]) = 1
              /\ tracked[active_run_stack[Process(w)][1]].started_by
                    = slots[w].number
    /\ \A r \in DOMAIN tracked :
          LET run == tracked[r]
              t == storage[MlflowCell][run.started_by + 1]
          IN  /\ run.run_name = MlflowCell
              /\ \A q \in DOMAIN tracked :
                    tracked[q].started_by = run.started_by => q = r
              /\ Len(run.params) <= 1
              /\ Len(run.metrics) <= 1
              /\ \A k \in DOMAIN run.params :
                    run.params[k] = <<run.started_by, t.params>>
              /\ \A k \in DOMAIN run.metrics :
                    run.metrics[k] =
                        <<run.started_by,
                          IF t.value # None THEN t.value ELSE NaN>>
              /\ run.status = "RUNNING" <=>
                    \E w \in 1..MaxWorkers :
                        InCallback(w) /\ slots[w].number = run.started_by
              /\ run.status = "RUNNING" <=>
                    \E p \in 1..MaxWorkers : active_run_stack[p] = <<r>>
              /\ run.status = "FINISHED" =>
                    Len(run.params) = 1 /\ Len(run.metrics) = 1
    /\ (plan = "tracking" /\ out.cell = MlflowCell /\ cell = "idle"
            /\ out.failures = 0) =>
          /\ Len(tracked) = N_TRIALS
          /\ \A r \in DOMAIN tracked : tracked[r].status = "FINISHED"
          /\ \A p \in 1..MaxWorkers : active_run_stack[p] = <<>>

\* C16 witness: the callbacks of two trials with different parameters are
\* inside their with blocks at once, one about to log its parameters, the
\* other its accuracy.
C16_Witness ==
    \E v, w \in 1..MaxWorkers :
        /\ slots[v].kind = "log_params"
        /\ slots[w].kind = "log_metrics"
        /\ slots[v].args # slots[w].args
        /\ Len(tracked) = 2

====
